---------------------------- MODULE Spec2Model ----------------------------
(***************************************************************************)
(* A model of curry/curry.py: the class `curry` (a currying wrapper that   *)
(* is also a non-data descriptor), its two evaluation checkers, and the    *)
(* module-level rebinding  curry = curry(curry).                           *)
(*                                                                         *)
(* Python values are modelled as strings ("1", "o1", "f2", "None", ...),   *)
(* positional argument tuples as sequences of strings, keyword mappings as *)
(* functions from keyword names to strings.  Wrapper objects live in a     *)
(* heap (`heap`), keyword dictionaries in a second heap (`dicts`) so that  *)
(* sharing and copying of `self.kwargs` is explicit.                       *)
(***************************************************************************)
EXTENDS Integers, Sequences, FiniteSets, TLC

\* ------------------------------------------------------------------ bounds
MaxWrappers == 3     \* wrapper objects on the heap

\* ------------------------------------------------------- Python constants
None == "None"
PyTrue == "True"
PyFalse == "False"

EmptyMap == [k \in {} |-> None]

Overlay(old, new) ==
  [k \in (DOMAIN old) \cup (DOMAIN new) |-> IF k \in DOMAIN new THEN new[k] ELSE old[k]]

\* ------------------------------------------------------------- signatures
POK == "POSITIONAL_OR_KEYWORD"
VAR_POSITIONAL == "VAR_POSITIONAL"
VAR_KEYWORD == "VAR_KEYWORD"

Param(n, k, d) == [name |-> n, kind |-> k, hasDefault |-> d]

\* The callables that get curried: the ones of the docstring, of the tests,
\* and the class `curry` itself.  f0..f3 stand for "a function of n required
\* positional parameters" (greater_than, add_5_things), f1v for a function
\* of one required parameter and *args; ns_task(function, *args, **kwargs)
\* and test(args='') are those of tasks.py.
\* func2 is the second function named func of the cache tests, def func(self).
\* For a class the signature is that of its __init__, receiver included: K0
\* stands for a class with  __init__(self), K2 for one with
\* __init__(self, x, y=0); HasCurryMethods is the class of the tests.
Signature(f) ==
  CASE f = "f0" -> << >>
    [] f = "f1" -> << Param("a", POK, FALSE) >>
    [] f = "f2" -> << Param("a", POK, FALSE), Param("b", POK, FALSE) >>
    [] f = "f3" -> << Param("a", POK, FALSE), Param("b", POK, FALSE),
                      Param("c", POK, FALSE) >>
    [] f = "crazy" -> << Param("a", POK, FALSE), Param("self", POK, FALSE) >>
    [] f = "func" -> << Param("self", POK, FALSE), Param("a", POK, TRUE) >>
    [] f = "func2" -> << Param("self", POK, FALSE) >>
    [] f = "kwarg_taking_function" ->
                   << Param("arg", POK, FALSE), Param("kwargs", VAR_KEYWORD, FALSE) >>
    [] f = "args_taking_function" -> << Param("args", VAR_POSITIONAL, FALSE) >>
    [] f = "add_n" -> << Param("function", POK, FALSE), Param("n", POK, TRUE) >>
    [] f = "test" -> << Param("args", POK, TRUE) >>
    [] f = "ns_task" -> << Param("function", POK, FALSE),
                           Param("args", VAR_POSITIONAL, FALSE),
                           Param("kwargs", VAR_KEYWORD, FALSE) >>
    [] f = "f1v" -> << Param("a", POK, FALSE), Param("args", VAR_POSITIONAL, FALSE) >>
    [] f = "K0" -> << Param("self", POK, FALSE) >>
    [] f = "K2" -> << Param("self", POK, FALSE), Param("x", POK, FALSE),
                      Param("y", POK, TRUE) >>
    [] f = "HasCurryMethods" ->
                   << Param("self", POK, FALSE), Param("starter", POK, FALSE) >>
    [] f = "curry" -> << Param("self", POK, FALSE), Param("function", POK, FALSE),
                         Param("evaluation_checker", POK, TRUE),
                         Param("args", POK, TRUE), Param("kwargs", POK, TRUE),
                         Param("cache_name", POK, TRUE) >>
    [] OTHER -> << >>

\* inspect.isclass(function)
IsClass(f) == f \in {"curry", "K0", "K2", "HasCurryMethods"}

\* function.__name__
NameOf(f) == IF f = "func2" THEN "func" ELSE f

Tail1(s) == IF Len(s) = 0 THEN s ELSE SubSeq(s, 2, Len(s))

PosIdx(sig) == {i \in 1..Len(sig) : sig[i].kind = POK}
HasKind(sig, k) == \E i \in 1..Len(sig) : sig[i].kind = k

\* signature.bind_partial(*args, **kwargs): positional arguments fill the
\* positional parameters left to right, keywords fill by name, surplus goes
\* to the variadic parameters; `ok` is FALSE where bind_partial raises
\* TypeError.  `names` is the key set of BoundArguments.arguments.
BindPartial(sig, args, kwargs) ==
  LET npos     == Cardinality(PosIdx(sig))
      filled   == {i \in PosIdx(sig) : i <= Len(args)}
      tooMany  == Len(args) > npos /\ ~HasKind(sig, VAR_POSITIONAL)
      multiple == \E i \in filled : sig[i].name \in DOMAIN kwargs
      byName   == {i \in PosIdx(sig) \ filled : sig[i].name \in DOMAIN kwargs}
      extra    == (DOMAIN kwargs) \ {sig[i].name : i \in PosIdx(sig)}
      unexpected == extra # {} /\ ~HasKind(sig, VAR_KEYWORD)
  IN [ok    |-> ~(tooMany \/ multiple \/ unexpected),
      names |-> {sig[i].name : i \in filled \cup byName}
                \cup {sig[i].name : i \in {j \in 1..Len(sig) :
                        sig[j].kind = VAR_POSITIONAL /\ Len(args) > npos}}
                \cup {sig[i].name : i \in {j \in 1..Len(sig) :
                        sig[j].kind = VAR_KEYWORD /\ extra # {}}}]

\* (a slip: a class is treated like a function, its receiver is a parameter
\* the caller has to supply)
ArityKeepsReceiver(f, args, kwargs) ==
  LET signature == Signature(f)
      bound     == BindPartial(signature, args, kwargs)
  IN IF ~bound.ok THEN "raise"
     ELSE IF \E i \in 1..Len(signature) :
                /\ signature[i].name \notin bound.names
                /\ ~signature[i].hasDefault
                /\ signature[i].kind # VAR_POSITIONAL
          THEN PyFalse
          ELSE PyTrue

\* (a slip: a parameter with a default counts as missing when not supplied)
ArityRequiresDefaults(f, args, kwargs) ==
  LET is_class   == IsClass(f)
      signature  == Signature(f)
      parameters == IF is_class THEN Tail1(signature) ELSE signature
      args1      == IF is_class THEN <<None>> \o args ELSE args
      bound      == BindPartial(signature, args1, kwargs)
  IN IF ~bound.ok THEN "raise"
     ELSE IF \E i \in 1..Len(parameters) :
                /\ parameters[i].name \notin bound.names
                /\ parameters[i].kind # VAR_POSITIONAL
          THEN PyFalse
          ELSE PyTrue

\* curry.arity_evaluation_checker(function)(*args, **kwargs)
\* result: "True", "False" or "raise"
ArityEvaluationChecker(f, args, kwargs) ==
  LET is_class   == IsClass(f)
      signature  == Signature(f)
      parameters == IF is_class THEN Tail1(signature) ELSE signature
      args1      == IF is_class THEN <<None>> \o args ELSE args
      bound      == BindPartial(signature, args1, kwargs)
  IN IF ~bound.ok THEN "raise"
     ELSE IF \E i \in 1..Len(parameters) :
                /\ parameters[i].name \notin bound.names
                /\ ~parameters[i].hasDefault
                /\ parameters[i].kind # VAR_POSITIONAL
          THEN PyFalse
          ELSE PyTrue

\* (a slip: one positional argument more than count is asked for)
CountExceeded(count, args, kwargs) ==
  IF Len(args) > count THEN PyTrue ELSE PyFalse

\* curry.count_evaluation_checker(count)(*args, **kwargs)
CountEvaluationChecker(count, args, kwargs) ==
  IF Len(args) >= count THEN PyTrue ELSE PyFalse


\* The evaluation checkers a caller hands to curry(...):
\*   "len_gt_2" : lambda *args, **kwargs: len(args) > 2      (docstring)
\*   "count_1"  : curry.count_evaluation_checker(1)
\*   "count_2"  : curry.count_evaluation_checker(2)
\*   "never"    : lambda *args, **kwargs: False
GivenChecker(name, args, kwargs) ==
  CASE name = "len_gt_2" -> IF Len(args) > 2 THEN PyTrue ELSE PyFalse
    [] name = "count_1"  -> CountEvaluationChecker(1, args, kwargs)
    [] name = "count_2"  -> CountEvaluationChecker(2, args, kwargs)
    [] OTHER             -> PyFalse

\* A checker object: the closure built by arity_evaluation_checker(of), or a
\* checker given by the caller; [kind |-> "None"] is the value None.
ArityChecker(f) == [kind |-> "arity", of |-> f]
CheckerValue(v) == IF v = None THEN [kind |-> "None", of |-> None]
                   ELSE [kind |-> "given", of |-> v]

\* self.evaluation_checker(*args, **kwargs)
EvaluationChecker(chk, args, kwargs) ==
  IF chk.kind = "arity" THEN ArityEvaluationChecker(chk.of, args, kwargs)
  ELSE GivenChecker(chk.of, args, kwargs)

\* ---------------------------------------------------- the curried targets
Instances == {"o1", "o2"}

Term(f, args, kwargs) == [fn |-> f, args |-> args, kwargs |-> kwargs]
NoVal == Term(None, << >>, EmptyMap)

\* Python's own argument binding for a real call f(*args, **kwargs): the
\* partial binding must succeed and no parameter without default is missing.
\* Calling a class binds the arguments to __init__ after the new object.
CallBinds(f, args, kwargs) ==
  LET sig == IF IsClass(f) THEN Tail1(Signature(f)) ELSE Signature(f)
      b   == BindPartial(sig, args, kwargs)
  IN b.ok /\ \A i \in PosIdx(sig) : sig[i].hasDefault \/ sig[i].name \in b.names

\* value of the positional-or-keyword parameter `name` in a call that binds
ArgValue(sig, args, kwargs, name, default) ==
  LET i == CHOOSE j \in 1..Len(sig) : sig[j].name = name
  IN IF i <= Len(args) THEN args[i]
     ELSE IF name \in DOMAIN kwargs THEN kwargs[name] ELSE default

Without(m, names) == [k \in (DOMAIN m) \ names |-> m[k]]

\* self.function(*new_args, **new_kwargs) for a target that is a function or
\* a class other than curry (the term then stands for the new instance).
\* The result is kept as the application term; bodies that can fail, or that
\* look at their arguments, are spelled out.
Invoke(f, args, kwargs) ==
  IF ~CallBinds(f, args, kwargs) THEN [kind |-> "raise", val |-> NoVal]
  ELSE CASE f = "crazy" ->
              \* return a + self.starter
              IF ArgValue(Signature(f), args, kwargs, "self", None) \in Instances
              THEN [kind |-> "value", val |-> Term(f, args, kwargs)]
              ELSE [kind |-> "raise", val |-> NoVal]
         [] f = "kwarg_taking_function" ->
              \* kwargs['k'] = arg; return kwargs
              LET arg == ArgValue(Signature(f), args, kwargs, "arg", None)
                  kw  == Without(kwargs, {"arg"})
              IN [kind |-> "value",
                  val  |-> Term(f, << >>, Overlay(kw, [k \in {"k"} |-> arg]))]
         [] f = "args_taking_function" ->
              \* reduce(lambda x, y: x*y, args)
              IF args = << >> THEN [kind |-> "raise", val |-> NoVal]
              ELSE [kind |-> "value", val |-> Term(f, args, kwargs)]
         [] OTHER -> [kind |-> "value", val |-> Term(f, args, kwargs)]

\* ------------------------------------------------------------------ state
VARIABLES
  cfg,     \* what the client program uses: functions, values, keywords, ...
  heap,    \* wrapper objects; heap[1] is the module-level  curry = curry(curry)
  dicts,   \* keyword dictionaries, referenced by index from heap[i].kwargs
  cls,     \* class attributes: attribute name -> wrapper (0: not set)
  inst,    \* instance __dict__: instance -> attribute name -> wrapper (0: no)
  last,    \* what the last operation did and returned
  hist     \* per wrapper: how it came about (history, not program state)

vars == <<cfg, heap, dicts, cls, inst, last, hist>>

Wrapper(f, chk, cn, args, kw) ==
  [function |-> f, evaluation_checker |-> chk, cache_name |-> cn,
   args |-> args, kwargs |-> kw]

\* curry.__init__(self, function, evaluation_checker, args, kwargs, cache_name)
\* over the dictionary heap ds; kwargs is a reference (0 for None).
CurryInit(ds, function, evaluation_checker, args, kwargs, cache_name) ==
  LET chk   == IF evaluation_checker.kind = "None"
               THEN ArityChecker(function) ELSE evaluation_checker
      cn    == IF cache_name = PyTrue THEN NameOf(function) ELSE cache_name
      fresh == kwargs = 0 \/ ds[kwargs] = EmptyMap        \* kwargs or {}
      ref   == IF fresh THEN Len(ds) + 1 ELSE kwargs
  IN [obj   |-> Wrapper(function, chk, cn, args, ref),
      dicts |-> IF fresh THEN Append(ds, EmptyMap) ELSE ds]

\* (a slip: no copy, the wrapper's own dictionary is updated in place)
KwargsAlias(ds, ref) == [dicts |-> ds, ref |-> ref]

\* self.kwargs.copy(): a new dictionary with the same items
KwargsCopy(ds, ref) == [dicts |-> Append(ds, ds[ref]), ref |-> Len(ds) + 1]

\* (a slip: the new arguments put in front of the accumulated ones)
MergeArgsReversed(old, new) == new \o old

\* self.args + args
MergeArgs(old, new) == old \o new


\* (a slip: accumulated keywords win over the new ones)
KwargsUpdateKeepOld(ds, ref, kwargs) == [ds EXCEPT ![ref] = Overlay(kwargs, @)]

\* new_kwargs.update(kwargs) on the dictionary ref of heap ds
KwargsUpdate(ds, ref, kwargs) == [ds EXCEPT ![ref] = Overlay(@, kwargs)]

\* type(self)(self.function, self.evaluation_checker, new_args, new_kwargs):
\* the wrapper a call returns when the checker is not satisfied
Partial(ds, self, new_args, new_kwargs) ==
  CurryInit(ds, self.function, self.evaluation_checker, new_args, new_kwargs, PyFalse)

\* (a slip: the instance put first, as for a plain bound method)
BindArgsFirst(args, obj) == <<obj>> \o args

\* self.args + (obj,)
BindArgs(args, obj) == args \o <<obj>>

\* type(self)(self.function, self.evaluation_checker,
\*            args=self.args + (obj,), kwargs=self.kwargs)   in __get__
Bound(ds, self, obj) ==
  CurryInit(ds, self.function, self.evaluation_checker,
            BindArgs(self.args, obj), self.kwargs, PyFalse)

\* truth value of self.cache_name
Truthy(v) == v \notin {PyFalse, None, ""}

\* (a slip: the configured cache name is not passed on to __init__)
ConstructWithoutCacheName(ds, args, kwargs) ==
  LET sig == Tail1(Signature("curry"))
  IN CurryInit(ds,
               ArgValue(sig, args, kwargs, "function", None),
               CheckerValue(ArgValue(sig, args, kwargs, "evaluation_checker", None)),
               << >>, 0, PyFalse)

\* curry(*args, **kwargs) for the class itself: Python binds the arguments to
\* __init__ (self is the new object) and runs it.
Construct(ds, args, kwargs) ==
  LET sig == Tail1(Signature("curry"))
  IN CurryInit(ds,
               ArgValue(sig, args, kwargs, "function", None),
               CheckerValue(ArgValue(sig, args, kwargs, "evaluation_checker", None)),
               << >>, 0,
               ArgValue(sig, args, kwargs, "cache_name", PyFalse))

\* ---------------------------------------------------------------- history
Born(via, parent, supplied, kw, obj, ds) ==
  [via |-> via, parent |-> parent, supplied |-> supplied, kw |-> kw,
   checker0 |-> obj.evaluation_checker, bound |-> None,
   args0 |-> obj.args, kwargs0 |-> ds[obj.kwargs],
   function0 |-> obj.function, cache_name0 |-> obj.cache_name]

Outcome(op, w, obj, name, args, kwargs, kind, ref, val, checks, invoked) ==
  [op |-> op, w |-> w, obj |-> obj, name |-> name, args |-> args,
   kwargs |-> kwargs, kind |-> kind, ref |-> ref, val |-> val,
   checks |-> checks, invoked |-> invoked]

\* ------------------------------------------------------------------ inputs
Key(k, v) == [x \in {k} |-> v]

\* what a client passes to the entry point and to the factories made from it
EntryArgs == {<< >>} \cup {<<f>> : f \in cfg.fns}
             \cup {<<f, c>> : f \in cfg.fns, c \in cfg.checkers \ {None}}

EntryKwargs ==
  {EmptyMap}
  \cup {Key("evaluation_checker", c) : c \in cfg.checkers}
  \cup {Key("cache_name", n) : n \in cfg.caches}

ArgsFor(w) == IF heap[w].function = "curry" THEN EntryArgs ELSE cfg.calls

KwargsFor(w) == IF heap[w].function = "curry" THEN EntryKwargs
                ELSE cfg.kwcalls


\* ----------------------------------------------------------------- actions
\* (a slip: the checker asked about the arguments of this call alone)
MergedCheckIncrement(w, args, kwargs) ==
  LET self == heap[w]
      c    == KwargsCopy(dicts, self.kwargs)
      ds   == IF kwargs # EmptyMap THEN KwargsUpdate(c.dicts, c.ref, kwargs)
              ELSE c.dicts
      na   == IF args # << >> THEN MergeArgs(self.args, args) ELSE self.args
  IN [new_args   |-> na,
      new_kwargs |-> c.ref,
      dicts      |-> ds,
      checked    |-> Term("checker", args, kwargs),
      verdict    |-> EvaluationChecker(self.evaluation_checker, args, kwargs)]

\* The first half of curry.__call__: merge, then ask the checker.
\* `checked` is the argument set the checker is called with.
Merged(w, args, kwargs) ==
  LET self == heap[w]
      c    == KwargsCopy(dicts, self.kwargs)
      ds   == IF kwargs # EmptyMap THEN KwargsUpdate(c.dicts, c.ref, kwargs)
              ELSE c.dicts
      na   == IF args # << >> THEN MergeArgs(self.args, args) ELSE self.args
  IN [new_args   |-> na,
      new_kwargs |-> c.ref,
      dicts      |-> ds,
      checked    |-> Term("checker", na, ds[c.ref]),
      verdict    |-> EvaluationChecker(self.evaluation_checker, na, ds[c.ref])]

\* the dictionaries still referenced once a call that built no wrapper returns
Released(ds) == SubSeq(ds, 1, Len(dicts))

\* w(*args, **kwargs), the checker raises: nothing is built, nothing invoked
CallCheckerRaises(w, args, kwargs) ==
  LET m == Merged(w, args, kwargs)
  IN /\ m.verdict = "raise"
     /\ last' = Outcome("call", w, None, None, args, kwargs, "raise", 0, NoVal,
                        << m.checked >>, << >>)
     /\ dicts' = Released(m.dicts)
     /\ UNCHANGED <<cfg, heap, cls, inst, hist>>

\* w(*args, **kwargs), the checker is satisfied and the target is a function
CallInvoke(w, args, kwargs) ==
  LET m  == Merged(w, args, kwargs)
      f  == heap[w].function
      kw == m.dicts[m.new_kwargs]
      r  == Invoke(f, m.new_args, kw)
  IN /\ m.verdict = PyTrue
     /\ f # "curry"
     /\ last' = Outcome("call", w, None, None, args, kwargs, r.kind, 0, r.val,
                        << m.checked >>,
                        << Term(f, m.new_args, kw) >>)
     /\ dicts' = Released(m.dicts)
     /\ UNCHANGED <<cfg, heap, cls, inst, hist>>

\* w(*args, **kwargs), the checker is satisfied and the target is the class
\* curry: the call returns curry(*new_args, **new_kwargs), a new wrapper
CallConstruct(w, args, kwargs) ==
  LET m  == Merged(w, args, kwargs)
      kw == m.dicts[m.new_kwargs]
      r  == Construct(Released(m.dicts), m.new_args, kw)
  IN /\ m.verdict = PyTrue
     /\ heap[w].function = "curry"
     /\ Len(heap) < MaxWrappers
     /\ heap' = Append(heap, r.obj)
     /\ dicts' = r.dicts
     /\ hist' = Append(hist, Born("init", 0, << >>, FALSE, r.obj, r.dicts))
     /\ last' = Outcome("call", w, None, None, args, kwargs, "wrapper",
                        Len(heap) + 1, NoVal,
                        << m.checked >>,
                        << Term("curry", m.new_args, kw) >>)
     /\ UNCHANGED <<cfg, cls, inst>>

\* w(*args, **kwargs), the checker is not satisfied: a new partial wrapper
CallPartial(w, args, kwargs) ==
  LET m  == Merged(w, args, kwargs)
      kw == m.dicts[m.new_kwargs]
      r  == Partial(m.dicts, heap[w], m.new_args, m.new_kwargs)
  IN /\ m.verdict = PyFalse
     /\ Len(heap) < MaxWrappers
     /\ heap' = Append(heap, r.obj)
     /\ dicts' = r.dicts
     /\ hist' = Append(hist, Born("call", w, hist[w].supplied \o args,
                                  hist[w].kw \/ kwargs # EmptyMap, r.obj, r.dicts))
     /\ last' = Outcome("call", w, None, None, args, kwargs, "wrapper",
                        Len(heap) + 1, NoVal,
                        << m.checked >>, << >>)
     /\ UNCHANGED <<cfg, cls, inst>>

\* curry.__call__ on a wrapper whose target is a function
CallFunction ==
  \E w \in 1..Len(heap) : \E args \in ArgsFor(w) : \E kwargs \in KwargsFor(w) :
     \/ CallCheckerRaises(w, args, kwargs)
     \/ CallInvoke(w, args, kwargs)
     \/ CallPartial(w, args, kwargs)

\* curry.__call__ on the entry point  curry = curry(curry)  and its partials
CallEntry ==
  \E w \in {i \in 1..Len(heap) : heap[i].function = "curry"} :
     \E args \in EntryArgs : \E kwargs \in EntryKwargs :
        \/ CallCheckerRaises(w, args, kwargs)
        \/ CallConstruct(w, args, kwargs)
        \/ CallPartial(w, args, kwargs)

\* ---------------------------------------------- the wrapper as descriptor
\* (a slip: the bound wrapper is stored under the attribute that was read)
CacheUnderReadName(d, self, name, ref) ==
  IF Truthy(self.cache_name) THEN Overlay(d, Key(name, ref)) ELSE d

\* (a slip: the bound wrapper is never stored on the instance)
CacheNever(d, self, name, ref) == d

\* if self.cache_name: setattr(obj, self.cache_name, bound)
\* d is obj.__dict__, ref the bound wrapper, name the attribute that was read
CacheOnInstance(d, self, name, ref) ==
  IF Truthy(self.cache_name) THEN Overlay(d, Key(self.cache_name, ref)) ELSE d

\* class body:  name = w   (a wrapper becomes a class attribute)
SetClassAttr ==
  \E name \in cfg.attrs : \E w \in 1..Len(heap) :
     /\ heap[w].function # "curry"
     /\ ~(name \in DOMAIN cls /\ cls[name] = w)
     /\ cls' = Overlay(cls, Key(name, w))
     /\ last' = Outcome("set", w, None, name, << >>, EmptyMap, "none", 0, NoVal, << >>, << >>)
     /\ UNCHANGED <<cfg, heap, dicts, inst, hist>>

\* (a slip: the wrapper on the class is consulted before the instance's own
\* dictionary, as for a data descriptor, and binds again)
ReadDescriptorFirst ==
  \E o \in cfg.objs : \E name \in DOMAIN inst[o] :
     IF name \in DOMAIN cls /\ Len(heap) < MaxWrappers
     THEN LET w    == cls[name]
              self == heap[w]
              r    == Bound(dicts, self, o)
              ref  == Len(heap) + 1
          IN /\ heap' = Append(heap, r.obj)
             /\ dicts' = r.dicts
             /\ inst' = [inst EXCEPT ![o] = CacheOnInstance(@, self, name, ref)]
             /\ hist' = Append(hist, [Born("get", w, hist[w].supplied, hist[w].kw,
                                            r.obj, r.dicts) EXCEPT !.bound = o])
             /\ last' = Outcome("get", w, o, name, << >>, EmptyMap, "wrapper", ref,
                                NoVal, << >>, << >>)
             /\ UNCHANGED <<cfg, cls>>
     ELSE /\ last' = Outcome("get_dict", 0, o, name, << >>, EmptyMap, "wrapper",
                             inst[o][name], NoVal, << >>, << >>)
          /\ UNCHANGED <<cfg, heap, dicts, cls, inst, hist>>

\* obj.name where obj.__dict__ has the name: a wrapper defines no __set__, so
\* the instance attribute wins and __get__ does not run
ReadInstanceDict ==
  \E o \in cfg.objs : \E name \in DOMAIN inst[o] :
     /\ last' = Outcome("get_dict", 0, o, name, << >>, EmptyMap, "wrapper",
                        inst[o][name], NoVal, << >>, << >>)
     /\ UNCHANGED <<cfg, heap, dicts, cls, inst, hist>>

\* (a slip: __get__ returns self(obj), so a read that completes the
\* arguments evaluates the checker and invokes the target)
ReadThroughInstanceCalls ==
  \E o \in cfg.objs : \E name \in (DOMAIN cls) \ (DOMAIN inst[o]) :
     LET w  == cls[name]
         m  == Merged(w, <<o>>, EmptyMap)
         f  == heap[w].function
         kw == m.dicts[m.new_kwargs]
         r  == Invoke(f, m.new_args, kw)
     IN /\ m.verdict = PyTrue
        /\ last' = Outcome("get", w, o, name, << >>, EmptyMap, r.kind, 0, r.val,
                           << m.checked >>, << Term(f, m.new_args, kw) >>)
        /\ dicts' = Released(m.dicts)
        /\ UNCHANGED <<cfg, heap, cls, inst, hist>>

\* obj.name found on the class: curry.__get__(self, obj, type(obj))
ReadThroughInstance ==
  \E o \in cfg.objs : \E name \in (DOMAIN cls) \ (DOMAIN inst[o]) :
     LET w    == cls[name]
         self == heap[w]
         r    == Bound(dicts, self, o)
         ref  == Len(heap) + 1
     IN /\ Len(heap) < MaxWrappers
        /\ heap' = Append(heap, r.obj)
        /\ dicts' = r.dicts
        /\ inst' = [inst EXCEPT ![o] = CacheOnInstance(@, self, name, ref)]
        /\ hist' = Append(hist, [Born("get", w, hist[w].supplied, hist[w].kw,
                                       r.obj, r.dicts) EXCEPT !.bound = o])
        /\ last' = Outcome("get", w, o, name, << >>, EmptyMap, "wrapper", ref,
                           NoVal, << >>, << >>)
        /\ UNCHANGED <<cfg, cls>>

\* (a slip: obj is not tested for None, the read through the type binds too)
ReadThroughTypeBinds ==
  \E name \in DOMAIN cls :
     LET w    == cls[name]
         self == heap[w]
         r    == Bound(dicts, self, None)
         ref  == Len(heap) + 1
     IN /\ Len(heap) < MaxWrappers
        /\ heap' = Append(heap, r.obj)
        /\ dicts' = r.dicts
        /\ hist' = Append(hist, Born("get", w, hist[w].supplied, hist[w].kw,
                                     r.obj, r.dicts))
        /\ last' = Outcome("get_type", w, None, name, << >>, EmptyMap, "wrapper",
                           ref, NoVal, << >>, << >>)
        /\ UNCHANGED <<cfg, cls, inst>>

\* Class.name: curry.__get__(self, None, Class) returns self
ReadThroughType ==
  \E name \in DOMAIN cls :
     /\ last' = Outcome("get_type", cls[name], None, name, << >>, EmptyMap, "wrapper",
                        cls[name], NoVal, << >>, << >>)
     /\ UNCHANGED <<cfg, heap, dicts, cls, inst, hist>>

\* ------------------------------------------------------------------- init
NoOutcome == Outcome("none", 0, None, None, << >>, EmptyMap, "none", 0, NoVal, << >>, << >>)

\* calls: the positional tuples, kwcalls: the keyword sets one call supplies
Client(fns, checkers, caches, calls, kwcalls) ==
  [fns |-> fns, checkers |-> checkers, caches |-> caches,
   calls |-> calls, kwcalls |-> kwcalls, attrs |-> {}, objs |-> {}]

\* a client that also installs wrappers as class attributes named in attrs
\* and reads them through the instances objs
MethodClient(calls, kwcalls, attrs, objs) ==
  [fns |-> {}, checkers |-> {}, caches |-> {},
   calls |-> calls, kwcalls |-> kwcalls, attrs |-> attrs, objs |-> objs]

\* the wrappers made at import time by  curry(function, checker, cache_name=..)
\* for each of `made`, in order
RECURSIVE Made(_, _, _)
Made(made, hp, ds) ==
  IF made = << >> THEN [heap |-> hp, dicts |-> ds]
  ELSE LET r == CurryInit(ds, made[1].function, CheckerValue(made[1].checker),
                          << >>, 0, made[1].cache_name)
       IN Made(Tail(made), Append(hp, r.obj), r.dicts)

Make(f, chk, cn) == [function |-> f, checker |-> chk, cache_name |-> cn]

\* the state after the module's definitions ran: the wrappers of `made`
\* exist, no class attribute is set and no instance has attributes
Start(c, made) ==
  LET m == Made(made, << >>, << >>)
  IN /\ cfg = c
     /\ heap = m.heap
     /\ dicts = m.dicts
     /\ cls = EmptyMap
     /\ inst = [o \in Instances |-> EmptyMap]
     /\ last = NoOutcome
     /\ hist = [i \in 1..Len(m.heap) |->
                  Born("init", 0, << >>, FALSE, m.heap[i], m.dicts)]

\* clients that curry one function with the default (arity) checker and
\* call it: n-ary functions called positionally, a binary function called
\* with keywords too, the keyword-collecting function of the tests, and a
\* function whose body fails on a wrong argument
FunctionClients ==
  {[c |-> Client({f}, {}, {}, {<< >>, <<"1">>, <<"2">>, <<"1", "2">>}, {EmptyMap}),
    made |-> << Make(f, None, PyFalse) >>] : f \in {"f0", "f1", "f2", "f3"}}
  \cup
  {[c |-> Client({"f2"}, {}, {}, {<< >>, <<"1">>},
                 {EmptyMap, Key("a", "1"), Key("b", "1"), Key("b", "2"), Key("z", "1")}),
    made |-> << Make("f2", None, PyFalse) >>],
   [c |-> Client({"kwarg_taking_function"}, {}, {}, {<< >>, <<"2">>},
                 {EmptyMap, Key("a", "14"), Key("a", "15")}),
    made |-> << Make("kwarg_taking_function", None, PyFalse) >>],
   [c |-> Client({"crazy"}, {}, {}, {<< >>, <<"1">>, <<"o1">>}, {EmptyMap}),
    made |-> << Make("crazy", None, PyFalse) >>]}

Init == \E x \in FunctionClients : Start(x.c, x.made)

Next == CallFunction

Spec == Init /\ [][Next]_vars

\* clients of the tests: crazy(a, self) partially applied and installed as
\* on_class; func(self, a=1) installed as test or func, without a cache
\* name, with cache_name='test' and with cache_name=True (that is 'func');
\* kwarg_taking_function(arg, **kwargs) installed as m
MethodClients ==
  {[c |-> MethodClient({<< >>, <<"1">>}, {EmptyMap}, {"on_class"}, {"o1"}),
    made |-> << Make("crazy", None, cn) >>] : cn \in {PyFalse, "on_class"}}
  \cup
  {[c |-> MethodClient({<< >>}, {EmptyMap}, {"test", "func"}, {"o1"}),
    made |-> << Make("func", None, cn) >>] : cn \in {PyFalse, "test", PyTrue}}
  \cup
  {[c |-> MethodClient({<< >>, <<"2">>}, {EmptyMap, Key("a", "14")}, {"m"}, {"o1"}),
    made |-> << Make("kwarg_taking_function", None, PyFalse) >>]}

InitMethods == \E x \in MethodClients : Start(x.c, x.made)

NextMethods ==
  \/ CallFunction
  \/ SetClassAttr
  \/ ReadInstanceDict
  \/ ReadThroughInstance
  \/ ReadThroughType

SpecMethods == InitMethods /\ [][NextMethods]_vars

\* clients that hand curry an evaluation checker of their own: the variadic
\* function of the docstring with len(args) > 2, a binary function with a
\* checker that is never true, with the count checker, and with none, and a
\* function that takes any arguments with the count checker for 1 and for 2
CheckerClients ==
  {[c |-> Client({"args_taking_function"}, {"len_gt_2"}, {},
                 {<< >>, <<"2">>, <<"3">>, <<"1", "2">>}, {EmptyMap}),
    made |-> << Make("args_taking_function", "len_gt_2", PyFalse) >>]}
  \cup
  {[c |-> Client({"f2"}, {chk}, {}, {<< >>, <<"1">>, <<"2">>}, {EmptyMap, Key("b", "1")}),
    made |-> << Make("f2", chk, PyFalse) >>] : chk \in {"never", "count_2", None}}
  \cup
  {[c |-> Client({"ns_task"}, {chk}, {}, {<< >>, <<"1">>, <<"1", "2">>},
                 {EmptyMap, Key("default", PyTrue)}),
    made |-> << Make("ns_task", chk, PyFalse) >>] : chk \in {"count_1", "count_2"}}

InitCheckers == \E x \in CheckerClients : Start(x.c, x.made)

SpecCheckers == InitCheckers /\ [][Next]_vars

\* clients of the entry point  curry = curry(curry): they pass it functions
\* and, by keyword, an evaluation checker and a cache name
EntryClient ==
  [c |-> Client({"func"}, {"len_gt_2"}, {"test", PyTrue},
                {<< >>}, {EmptyMap}),
   made |-> << Make("curry", None, PyFalse) >>]

InitEntry == Start(EntryClient.c, EntryClient.made)

NextEntry == CallEntry

SpecEntry == InitEntry /\ [][NextEntry]_vars

\* clients that curry, with the default (arity) checker, functions that have
\* defaulted or variadic-positional parameters: the decorator add_n of the
\* docstring applied with and without n, a function of one required
\* parameter and *args, the all-variadic function of the docstring and a
\* function whose only parameter has a default
ArityClients ==
  {[c |-> Client({"add_n"}, {}, {}, {<< >>, <<"f1">>, <<"f1", "2">>},
                 {EmptyMap, Key("n", "12"), Key("function", "f1")}),
    made |-> << Make("add_n", None, PyFalse) >>],
   [c |-> Client({"f1v"}, {}, {}, {<< >>, <<"1">>, <<"1", "2">>},
                 {EmptyMap, Key("a", "1")}),
    made |-> << Make("f1v", None, PyFalse) >>],
   [c |-> Client({"args_taking_function"}, {}, {}, {<< >>, <<"2">>, <<"2", "3">>},
                 {EmptyMap}),
    made |-> << Make("args_taking_function", None, PyFalse) >>],
   [c |-> Client({"test"}, {}, {}, {<< >>, <<"x">>}, {EmptyMap, Key("args", "x")}),
    made |-> << Make("test", None, PyFalse) >>]}

InitArity == \E x \in ArityClients : Start(x.c, x.made)

SpecArity == InitArity /\ [][Next]_vars

\* clients that curry a class: one whose __init__ takes the receiver only,
\* the class of the tests (one required parameter) and one with a required
\* and a defaulted parameter
ClassClients ==
  {[c |-> Client({"K0"}, {}, {}, {<< >>, <<"1">>}, {EmptyMap}),
    made |-> << Make("K0", None, PyFalse) >>],
   [c |-> Client({"HasCurryMethods"}, {}, {}, {<< >>, <<"2">>, <<"2", "3">>},
                 {EmptyMap, Key("starter", "2")}),
    made |-> << Make("HasCurryMethods", None, PyFalse) >>],
   [c |-> Client({"K2"}, {}, {}, {<< >>, <<"1">>, <<"1", "2">>},
                 {EmptyMap, Key("x", "1"), Key("y", "2")}),
    made |-> << Make("K2", None, PyFalse) >>]}

InitClasses == \E x \in ClassClients : Start(x.c, x.made)

SpecClasses == InitClasses /\ [][Next]_vars

\* clients of the cache tests and of several instances: the class
\* CurryCacheTest2 with  test = curry(func, cache_name='test')  and a second
\* function func under cache_name=True, the attribute names being assigned in
\* any order and again; and crazy(a, self) read through two instances,
\* without a cache name as on_class, and with the cache name on_class under
\* that name and under another
CacheClients ==
  {[c |-> MethodClient({<< >>}, {EmptyMap}, {"test", "func"}, {"o1"}),
    made |-> << Make("func", None, "test"), Make("func2", None, PyTrue) >>]}
  \cup
  {[c |-> MethodClient({<< >>, <<"1">>}, {EmptyMap}, {"on_class"}, {"o1", "o2"}),
    made |-> << Make("crazy", None, PyFalse) >>],
   [c |-> MethodClient({<<"1">>}, {EmptyMap}, {"on_class", "other"}, {"o1", "o2"}),
    made |-> << Make("crazy", None, "on_class") >>]}

InitCache == \E x \in CacheClients : Start(x.c, x.made)

SpecCache == InitCache /\ [][NextMethods]_vars

\* ------------------------------------------------------------------ claims
Nary == {"f0", "f1", "f2", "f3"}

\* the last operation was a call on a wrapper
Called == last.op = "call"

\* C1: for a function of n required positional parameters under the arity
\* checker, whatever the split of the arguments over the calls, a call that
\* leaves the supplied count below n returns a wrapper and invokes nothing,
\* and the call that brings it to n invokes f once and returns f(a1..an).
C1_SplitCallsEqualDirectCall ==
  (Called /\ heap[last.w].function \in Nary
          /\ heap[last.w].evaluation_checker = ArityChecker(heap[last.w].function)
          /\ ~hist[last.w].kw /\ last.kwargs = EmptyMap)
  => LET f   == heap[last.w].function
         n   == Len(Signature(f))
         all == hist[last.w].supplied \o last.args
     IN /\ Len(all) < n => (last.kind = "wrapper" /\ last.invoked = << >>)
        /\ Len(all) = n => /\ last.kind = "value"
                           /\ last.val = Invoke(f, all, EmptyMap).val
                           /\ last.invoked = << Term(f, all, EmptyMap) >>

\* three calls of one argument each complete a ternary function
C1_Witness ==
  /\ Called /\ last.kind = "value" /\ heap[last.w].function = "f3"
  /\ Len(last.args) = 1
  /\ hist[last.w].via = "call" /\ Len(hist[last.w].supplied) = 2
  /\ hist[hist[last.w].parent].via = "call"
  /\ Len(hist[hist[last.w].parent].supplied) = 1

\* C2: the merged positional arguments of a call are the accumulated ones
\* followed by the new ones, the merged keywords are the accumulated ones
\* with every new keyword taking the new value; this merged set is what the
\* checker sees, what the target receives and what a returned wrapper holds.
MergedAsClaimed(args, kwargs) ==
  LET old == hist[last.w]
  IN /\ args = old.args0 \o last.args
     /\ DOMAIN kwargs = (DOMAIN old.kwargs0) \cup (DOMAIN last.kwargs)
     /\ \A k \in DOMAIN last.kwargs : kwargs[k] = last.kwargs[k]
     /\ \A k \in (DOMAIN old.kwargs0) \ (DOMAIN last.kwargs) : kwargs[k] = old.kwargs0[k]

C2_MergeAppendsAndOverlays ==
  Called =>
    /\ \A i \in 1..Len(last.checks) :
          MergedAsClaimed(last.checks[i].args, last.checks[i].kwargs)
    /\ \A i \in 1..Len(last.invoked) :
          MergedAsClaimed(last.invoked[i].args, last.invoked[i].kwargs)
    /\ (last.kind = "wrapper" /\ heap[last.w].function # "curry") =>
          MergedAsClaimed(heap[last.ref].args, dicts[heap[last.ref].kwargs])

\* a keyword given in an earlier call is given again, with another value, in
\* the call that also supplies the last positional argument
C2_Witness ==
  /\ Called /\ last.invoked # << >> /\ last.args # << >>
  /\ \E k \in (DOMAIN last.kwargs) \cap (DOMAIN hist[last.w].kwargs0) :
        /\ last.kwargs[k] # hist[last.w].kwargs0[k]
        /\ last.invoked[1].kwargs[k] = last.kwargs[k]

\* the last operation read an attribute through an instance and __get__ ran
Bind == last.op = "get"

\* C3 as stated: the wrapper a read through an instance returns holds the
\* instance followed by the accumulated positional arguments of the wrapper
\* that was read.
C3_Original ==
  Bind => heap[last.ref].args = <<last.obj>> \o hist[last.w].args0

\* C3 (amended): the wrapper a read through an instance returns has the
\* target, checker and keywords of the wrapper that was read and holds its
\* accumulated positional arguments followed by the instance; a call on it
\* that invokes the target passes the accumulated arguments, then the
\* instance, then the arguments of that call.
C3_BoundAppendsInstance ==
  /\ Bind =>
       /\ heap[last.ref].args = hist[last.w].args0 \o <<last.obj>>
       /\ heap[last.ref].function = hist[last.w].function0
       /\ heap[last.ref].evaluation_checker = hist[last.w].checker0
       /\ dicts[heap[last.ref].kwargs] = hist[last.w].kwargs0
  /\ (Called /\ hist[last.w].via = "get" /\ last.invoked # << >>) =>
       LET b == hist[last.w]
       IN /\ last.invoked[1].fn = b.function0
          /\ last.invoked[1].args = hist[b.parent].args0 \o <<b.bound>> \o last.args
          /\ last.kind = Invoke(b.function0, last.invoked[1].args,
                                last.invoked[1].kwargs).kind

\* on_class = crazy(1);  obj.on_class()  returns crazy(1, obj)
C3_Witness ==
  /\ Called /\ last.kind = "value" /\ last.args = << >>
  /\ hist[last.w].via = "get"
  /\ hist[hist[last.w].parent].args0 = <<"1">>
  /\ last.val = Term("crazy", <<"1", "o1">>, EmptyMap)

\* an attribute read through an instance, served by __get__ or by the
\* instance's own dictionary
InstanceRead(op) == op \in {"get", "get_dict"}

\* this step and the one before it read the same class attribute through
\* the same instance
TwoReads ==
  /\ InstanceRead(last.op) /\ InstanceRead(last'.op)
  /\ last'.obj = last.obj /\ last'.name = last.name
  /\ last.name \in DOMAIN cls

\* two wrappers that give equal results on equal arguments
SameBehaviour(a, b, ds) ==
  /\ a.function = b.function
  /\ a.evaluation_checker = b.evaluation_checker
  /\ a.args = b.args
  /\ ds[a.kwargs] = ds[b.kwargs]

DistinctButEqual ==
  /\ last'.ref # last.ref
  /\ SameBehaviour(heap'[last.ref], heap'[last'.ref], dicts')

\* C4 as stated: under any attribute name, with a cache_key two successive
\* reads through one instance return the identical bound wrapper, without
\* one they return distinct wrappers that behave alike.
C4_Original ==
  [][TwoReads =>
       IF Truthy(heap[cls[last.name]].cache_name)
       THEN last'.ref = last.ref
       ELSE DistinctButEqual]_vars

\* C4 (amended): if the cache_key of a wrapper installed as a class
\* attribute equals the attribute's name, two successive reads of it through
\* one instance return the identical bound wrapper; if there is no cache_key
\* or it is another name, and the instance holds no attribute of the name
\* read, they return distinct bound wrappers that behave alike.
C4_CachedWhenKeyIsAttributeName ==
  [][TwoReads =>
       LET key == heap[cls[last.name]].cache_name
       IN /\ key = last.name => last'.ref = last.ref
          /\ (key # last.name /\ last.name \notin DOMAIN inst[last.obj])
                => DistinctButEqual]_vars

\* a second read found the bound wrapper the first one cached
C4_Witness ==
  /\ last.op = "get_dict" /\ last.name \in DOMAIN cls
  /\ heap[cls[last.name]].cache_name = last.name
  /\ hist[last.ref].via = "get" /\ hist[last.ref].parent = cls[last.name]
  /\ hist[last.ref].bound = last.obj

\* C5 as stated: the wrapper returned by a call that does not satisfy the
\* checker has the target, the checker and the cache_key of the wrapper that
\* was called and holds the merged arguments.
C5_Original ==
  (Called /\ last.kind = "wrapper" /\ heap[last.w].function # "curry") =>
     /\ heap[last.ref].function = heap[last.w].function
     /\ heap[last.ref].evaluation_checker = heap[last.w].evaluation_checker
     /\ heap[last.ref].cache_name = heap[last.w].cache_name
     /\ heap[last.ref].args = hist[last.w].args0 \o last.args

\* C6: every wrapper keeps the target, the checker and the accumulated
\* positional and keyword arguments it was created with, whatever calls and
\* reads follow; a call that invokes the target passes the called wrapper's
\* own arguments followed by the arguments of that call and nothing else.
C6_WrappersAreNeverMutated ==
  /\ \A i \in 1..Len(heap) :
        /\ heap[i].args = hist[i].args0
        /\ dicts[heap[i].kwargs] = hist[i].kwargs0
        /\ heap[i].function = hist[i].function0
        /\ heap[i].evaluation_checker = hist[i].checker0
  /\ (Called /\ last.invoked # << >>) =>
        /\ last.invoked[1].args = hist[last.w].args0 \o last.args
        /\ DOMAIN last.invoked[1].kwargs =
              (DOMAIN hist[last.w].kwargs0) \cup (DOMAIN last.kwargs)

\* kwarg_taking_function wrote kwargs['k'] in the mapping it received; the
\* partial wrapper that was called, made by a call with a keyword, has no 'k'
C6_Witness ==
  /\ Called /\ last.kind = "value"
  /\ hist[last.w].via = "call" /\ hist[last.w].kwargs0 # EmptyMap
  /\ "k" \in DOMAIN last.val.kwargs
  /\ "k" \notin DOMAIN dicts[heap[last.w].kwargs]

\* the call of this step ended with a failure
Failed == last'.op = "call" /\ last'.kind = "raise"

\* the merged arguments of the call of this step, from the history
MergedArgs == hist[last'.w].args0 \o last'.args
MergedKwargs ==
  [k \in (DOMAIN hist[last'.w].kwargs0) \cup (DOMAIN last'.kwargs) |->
     IF k \in DOMAIN last'.kwargs THEN last'.kwargs[k] ELSE hist[last'.w].kwargs0[k]]

\* C7: a call during which the checker or the target fails returns neither a
\* wrapper nor a result and leaves every wrapper, dictionary, class and
\* instance as it was; a call whose checker fails (too many positional
\* arguments for an n-ary function, a parameter given positionally and by
\* keyword) fails without invoking the target, and a call whose target fails
\* fails.
C7_FailurePropagates ==
  [][/\ Failed =>
          /\ last'.ref = 0 /\ last'.val = NoVal
          /\ heap' = heap /\ dicts' = dicts /\ cls' = cls /\ inst' = inst
     /\ (last'.op = "call" /\ heap[last'.w].function # "curry") =>
          LET self == heap[last'.w]
              sig  == Signature(self.function)
              v    == EvaluationChecker(self.evaluation_checker, MergedArgs, MergedKwargs)
          IN /\ v = "raise" => (Failed /\ last'.invoked = << >>)
             /\ (self.function \in Nary /\ self.evaluation_checker.kind = "arity"
                   /\ (\/ Len(MergedArgs) > Len(sig)
                       \/ \E i \in 1..Len(sig) :
                             i <= Len(MergedArgs) /\ sig[i].name \in DOMAIN MergedKwargs))
                  => (Failed /\ last'.invoked = << >>)
             /\ (v = PyTrue /\ Invoke(self.function, MergedArgs, MergedKwargs).kind = "raise")
                  => (Failed /\ Len(last'.invoked) = 1)]_vars

\* f2(1)(a=1): the parameter a is given positionally and again by keyword
C7_Witness ==
  /\ Called /\ last.kind = "raise" /\ last.invoked = << >>
  /\ hist[last.w].via = "call" /\ hist[last.w].args0 # << >>
  /\ last.kwargs # EmptyMap

\* the last operation was a call on the entry point or on a factory made of it
EntryCall == Called /\ heap[last.w].function = "curry"

\* position of a parameter of curry.__init__ among the caller's arguments
PosOf(name) ==
  CHOOSE i \in 1..Len(Tail1(Signature("curry"))) : Tail1(Signature("curry"))[i].name = name

\* the value of a constructor parameter over the calls up to the last one:
\* positional in the last call, else the latest keyword, else the default
Configured(name, default) ==
  IF Len(last.args) >= PosOf(name) THEN last.args[PosOf(name)]
  ELSE IF name \in DOMAIN last.kwargs THEN last.kwargs[name]
  ELSE IF name \in DOMAIN hist[last.w].kwargs0 THEN hist[last.w].kwargs0[name]
  ELSE default

\* a constructor parameter given positionally and by keyword
GivenTwice ==
  Len(last.args) >= PosOf("evaluation_checker") /\
  "evaluation_checker" \in (DOMAIN last.kwargs) \cup (DOMAIN hist[last.w].kwargs0)

\* C8: the entry point called without a callable returns a factory holding
\* the keyword configuration given so far and constructs nothing; called
\* with a callable it returns, at that call, a wrapper over the callable with
\* the checker and the cache name configured over the calls (the arity
\* checker if none, the callable's name for cache_name=True).
C8_EntryPointIsCurried ==
  EntryCall =>
    /\ hist[last.w].args0 = << >>
    /\ last.args = << >> =>
         /\ last.kind = "wrapper" /\ last.invoked = << >>
         /\ heap[last.ref].function = "curry" /\ heap[last.ref].args = << >>
         /\ \A k \in {"evaluation_checker", "cache_name"} :
               /\ k \in DOMAIN dicts[heap[last.ref].kwargs]
                    <=> k \in (DOMAIN last.kwargs) \cup (DOMAIN hist[last.w].kwargs0)
               /\ k \in DOMAIN dicts[heap[last.ref].kwargs]
                    => dicts[heap[last.ref].kwargs][k] = Configured(k, None)
    /\ (last.args # << >> /\ ~GivenTwice) =>
         LET f   == last.args[1]
             chk == Configured("evaluation_checker", None)
             cn  == Configured("cache_name", PyFalse)
         IN /\ last.kind = "wrapper" /\ Len(last.invoked) = 1
            /\ heap[last.ref].function = f
            /\ heap[last.ref].evaluation_checker =
                  IF chk = None THEN ArityChecker(f) ELSE CheckerValue(chk)
            /\ heap[last.ref].cache_name = IF cn = PyTrue THEN NameOf(f) ELSE cn
            /\ heap[last.ref].args = << >>
            /\ dicts[heap[last.ref].kwargs] = EmptyMap

\* curry(cache_name=True)(func): the factory made by the first call wraps func
\* with the cache name 'func'
C8_Witness ==
  /\ EntryCall /\ hist[last.w].via = "call"
  /\ hist[last.w].kwargs0 = Key("cache_name", PyTrue)
  /\ last.args = <<"func">> /\ last.kwargs = EmptyMap
  /\ last.kind = "wrapper" /\ heap[last.ref].cache_name = "func"

\* C9 as documented: args_taking_function under the checker len(args) > 2 is
\* evaluated by the call that brings the accumulated positional arguments
\* to two (or more), and returns their product.
C9_Original ==
  (Called /\ heap[last.w].function = "args_taking_function"
          /\ heap[last.w].evaluation_checker = CheckerValue("len_gt_2")
          /\ Len(hist[last.w].args0 \o last.args) >= 2)
  => /\ last.kind = "value"
     /\ last.val = Term("args_taking_function", hist[last.w].args0 \o last.args, EmptyMap)

\* C10: a call evaluates the checker once, on the accumulated arguments
\* followed and overlaid by the new ones; it invokes the target exactly when
\* the checker is true of that set, once, with that set, and returns what the
\* target returns; under a checker that is never true every call returns a
\* wrapper and invokes nothing.
C10_CheckerSeesMergedSetAndDecides ==
  (Called /\ heap[last.w].function # "curry") =>
    LET self == heap[last.w]
        args == hist[last.w].args0 \o last.args
        kw   == [k \in (DOMAIN hist[last.w].kwargs0) \cup (DOMAIN last.kwargs) |->
                   IF k \in DOMAIN last.kwargs THEN last.kwargs[k]
                   ELSE hist[last.w].kwargs0[k]]
        v    == EvaluationChecker(self.evaluation_checker, args, kw)
    IN /\ last.checks = << Term("checker", args, kw) >>
       /\ v = PyTrue <=> last.invoked # << >>
       /\ v = PyTrue =>
            /\ last.invoked = << Term(self.function, args, kw) >>
            /\ last.kind = Invoke(self.function, args, kw).kind
            /\ last.val = Invoke(self.function, args, kw).val
       /\ v = PyFalse => last.kind = "wrapper"
       /\ self.evaluation_checker = CheckerValue("never") =>
            (last.kind = "wrapper" /\ last.invoked = << >>)

\* under count_evaluation_checker(2) the second one-argument call invokes
\* the target: the checker is true of the merged set, not of the increment
C10_Witness ==
  /\ Called /\ heap[last.w].evaluation_checker = CheckerValue("count_2")
  /\ Len(last.args) = 1 /\ Len(hist[last.w].args0) = 1
  /\ last.kind = "value" /\ Len(last.invoked) = 1

\* the argument set of the last call: what the called wrapper had accumulated
\* followed and overlaid by what the call supplied
GotArgs == hist[last.w].args0 \o last.args
GotKwargs == Overlay(hist[last.w].kwargs0, last.kwargs)

\* the parameters a caller has to supply: no default, not variadic
Required(sig) == {i \in 1..Len(sig) : sig[i].kind = POK /\ ~sig[i].hasDefault}

\* every required parameter is supplied, positionally or by name
SuppliedAll(sig, args, kwargs) ==
  \A i \in Required(sig) : i <= Len(args) \/ sig[i].name \in DOMAIN kwargs

\* the argument set can be partially bound: no positional argument without a
\* parameter, no parameter given twice, no keyword without a parameter
Bindable(sig, args, kwargs) ==
  /\ Len(args) <= Cardinality(PosIdx(sig)) \/ HasKind(sig, VAR_POSITIONAL)
  /\ \A i \in PosIdx(sig) : ~(i <= Len(args) /\ sig[i].name \in DOMAIN kwargs)
  /\ \A k \in DOMAIN kwargs :
        HasKind(sig, VAR_KEYWORD) \/ \E i \in PosIdx(sig) : sig[i].name = k

\* the last operation was a call on a wrapper of a function under the arity
\* checker built for that function
ArityCall ==
  /\ Called
  /\ ~IsClass(heap[last.w].function)
  /\ heap[last.w].evaluation_checker = ArityChecker(heap[last.w].function)

\* C11 as stated: for a function with required parameters and a
\* variadic-keyword parameter, the call that supplies the last required
\* parameter invokes the function, whether or not a keyword that the
\* variadic-keyword parameter collects was supplied.
C11_Original ==
  (ArityCall /\ HasKind(Signature(heap[last.w].function), VAR_KEYWORD)
             /\ Bindable(Signature(heap[last.w].function), GotArgs, GotKwargs)
             /\ SuppliedAll(Signature(heap[last.w].function), GotArgs, GotKwargs))
  => last.invoked = << Term(heap[last.w].function, GotArgs, GotKwargs) >>

\* C12: for a function whose parameters are required, defaulted or
\* variadic-positional, and a merged argument set that can be partially
\* bound, the arity checker is true exactly when every required parameter is
\* supplied, positionally or by name; the call then invokes the function on
\* the merged set, and otherwise returns a wrapper.  Defaulted and
\* variadic-positional parameters are never waited for.
C12_ArityCheckerWaitsForRequiredOnly ==
  (ArityCall /\ ~HasKind(Signature(heap[last.w].function), VAR_KEYWORD)
             /\ Bindable(Signature(heap[last.w].function), GotArgs, GotKwargs))
  => LET f    == heap[last.w].function
         full == SuppliedAll(Signature(f), GotArgs, GotKwargs)
     IN /\ EvaluationChecker(ArityChecker(f), GotArgs, GotKwargs) =
              IF full THEN PyTrue ELSE PyFalse
        /\ full => last.invoked = << Term(f, GotArgs, GotKwargs) >>
        /\ ~full => (last.kind = "wrapper" /\ last.invoked = << >>)

\* @add_n(n=12) applied to a function: n was given by keyword in an earlier
\* call, the call that supplies the function invokes add_n
C12_Witness ==
  /\ ArityCall /\ heap[last.w].function = "add_n"
  /\ hist[last.w].via = "call" /\ hist[last.w].kwargs0 = Key("n", "12")
  /\ last.args = <<"f1">> /\ last.kwargs = EmptyMap
  /\ last.kind = "value"
  /\ last.val = Term("add_n", <<"f1">>, Key("n", "12"))

\* the last operation was a call on a wrapper of a class under the arity
\* checker built for that class
ClassCall ==
  /\ Called
  /\ IsClass(heap[last.w].function)
  /\ heap[last.w].evaluation_checker = ArityChecker(heap[last.w].function)

\* C13: for a class the caller's arguments are matched against the
\* parameters of __init__ after the receiver: when they can be partially
\* bound, the arity checker is true exactly when every required parameter
\* other than the receiver is supplied, the class is then called with the
\* caller's arguments, and otherwise a wrapper is returned; a class whose
\* __init__ declares only the receiver is invoked by the first call without
\* arguments.
C13_ClassCheckedWithoutReceiver ==
  ClassCall =>
    LET f      == heap[last.w].function
        params == Tail1(Signature(f))
        full   == SuppliedAll(params, GotArgs, GotKwargs)
    IN /\ Bindable(params, GotArgs, GotKwargs) =>
            /\ EvaluationChecker(ArityChecker(f), GotArgs, GotKwargs) =
                  IF full THEN PyTrue ELSE PyFalse
            /\ full => last.invoked = << Term(f, GotArgs, GotKwargs) >>
            /\ ~full => (last.kind = "wrapper" /\ last.invoked = << >>)
       /\ (params = << >> /\ hist[last.w].via = "init"
             /\ last.args = << >> /\ last.kwargs = EmptyMap)
           => (last.kind = "value" /\ last.val = Term(f, << >>, EmptyMap))

\* curry(K0)() for a class K0 with __init__(self) returns an instance
C13_Witness ==
  /\ ClassCall /\ Signature(heap[last.w].function) = << Param("self", POK, FALSE) >>
  /\ hist[last.w].via = "init"
  /\ last.args = << >> /\ last.kwargs = EmptyMap
  /\ last.kind = "value" /\ Len(last.invoked) = 1

\* the count of a count checker
CountOf(chk) == IF chk = CheckerValue("count_1") THEN 1 ELSE 2

\* the last operation was a call on a wrapper built with a count checker
CountCall ==
  /\ Called
  /\ heap[last.w].evaluation_checker \in {CheckerValue("count_1"), CheckerValue("count_2")}

\* C14: under the count checker for n, a call on a wrapper invokes the target
\* exactly when the positional arguments supplied over all calls so far,
\* this one included, number at least n, whatever keywords were supplied;
\* the target then gets all of them, those beyond n too, and all merged
\* keywords.  No wrapper holds n or more positional arguments, so the call
\* that invokes is the first one to reach n.
C14_CountCheckerFiresAtCount ==
  /\ \A i \in 1..Len(heap) :
        heap[i].evaluation_checker \in {CheckerValue("count_1"), CheckerValue("count_2")}
          => /\ Len(heap[i].args) < CountOf(heap[i].evaluation_checker)
             /\ heap[i].args = hist[i].supplied
  /\ CountCall =>
        LET n   == CountOf(heap[last.w].evaluation_checker)
            all == hist[last.w].supplied \o last.args
        IN /\ Len(all) >= n <=> last.invoked # << >>
           /\ Len(all) >= n =>
                last.invoked = << Term(heap[last.w].function, all, GotKwargs) >>
           /\ Len(all) < n => last.kind = "wrapper"

\* under count_evaluation_checker(2) a wrapper that holds one argument and a
\* keyword is called with two more arguments: the target gets all three
C14_Witness ==
  /\ CountCall /\ CountOf(heap[last.w].evaluation_checker) = 2
  /\ Len(hist[last.w].supplied) = 1 /\ hist[last.w].kwargs0 # EmptyMap
  /\ Len(last.args) = 2
  /\ last.kind = "value" /\ Len(last.val.args) = 3
  /\ DOMAIN last.val.kwargs = DOMAIN hist[last.w].kwargs0

\* C15: a read of a name through an instance that holds a bound wrapper
\* under that name returns that bound wrapper, whatever the class attribute
\* of the name is by then; assigning a class attribute changes no instance
\* and no wrapper; every wrapper made by a call or by a read has the target
\* of the wrapper it was made from, the one it was created with.
C15_CachedBoundSurvivesReassignment ==
  [][/\ \A i \in 1..Len(heap') :
           hist'[i].via \in {"call", "get"} =>
              /\ heap'[i].function = heap'[hist'[i].parent].function
              /\ heap'[i].function = hist'[i].function0
     /\ last'.op = "set" => (inst' = inst /\ heap' = heap /\ dicts' = dicts)
     /\ \A o \in cfg.objs : \A name \in DOMAIN inst[o] :
           (InstanceRead(last'.op) /\ last'.obj = o /\ last'.name = name) =>
              /\ last'.ref = inst[o][name]
              /\ inst' = inst
              /\ heap'[last'.ref] = heap[inst[o][name]]
              /\ hist[inst[o][name]].via = "get"
              /\ hist[inst[o][name]].bound = o]_vars

\* instance.test was cached, the class attribute test was then assigned a
\* wrapper of another function, and instance.test still is the cached bound
\* wrapper of the first function
C15_Witness ==
  /\ last.op = "get_dict" /\ last.name \in DOMAIN cls
  /\ hist[last.ref].via = "get" /\ hist[last.ref].bound = last.obj
  /\ cls[last.name] # hist[last.ref].parent
  /\ heap[cls[last.name]].function # heap[last.ref].function
  /\ heap[last.ref].function = heap[hist[last.ref].parent].function

\* C16: a read through the type returns the wrapper that is the class
\* attribute, and leaves every wrapper, every keyword dictionary, every
\* instance and the class as they were, with or without a cache name.
C16_TypeReadReturnsSelf ==
  [][last'.op = "get_type" =>
       /\ last'.name \in DOMAIN cls
       /\ last'.kind = "wrapper" /\ last'.ref = cls[last'.name]
       /\ last'.checks = << >> /\ last'.invoked = << >>
       /\ heap' = heap /\ dicts' = dicts /\ inst' = inst /\ cls' = cls]_vars

\* a wrapper with a cache name was read through the type and no instance
\* holds an attribute
C16_Witness ==
  /\ last.op = "get_type" /\ last.ref = cls[last.name]
  /\ Truthy(heap[last.ref].cache_name)
  /\ \A o \in cfg.objs : inst[o] = EmptyMap

\* the accumulated arguments of a wrapper satisfy its checker
Complete(i) ==
  EvaluationChecker(heap[i].evaluation_checker, heap[i].args, dicts[heap[i].kwargs]) = PyTrue

\* C17: a read through an instance returns a wrapper, evaluates no checker
\* and invokes nothing, also when the instance completes the arguments; the
\* target is invoked by calls only, and a call without arguments on a bound
\* wrapper whose arguments are complete invokes it on those arguments.
C17_ReadNeverInvokes ==
  /\ InstanceRead(last.op) =>
        /\ last.kind = "wrapper" /\ last.ref \in 1..Len(heap)
        /\ last.checks = << >> /\ last.invoked = << >>
  /\ last.invoked # << >> => Called
  /\ (Called /\ hist[last.w].via = "get" /\ Complete(last.w)
             /\ last.args = << >> /\ last.kwargs = EmptyMap) =>
        last.invoked = << Term(hist[last.w].function0, hist[last.w].args0,
                               hist[last.w].kwargs0) >>

\* a wrapper that lacked one argument was read through an instance (as
\* on_class = crazy(1) is): the wrapper returned holds every required
\* argument and nothing was evaluated or invoked
C17_Witness ==
  /\ Bind /\ last.kind = "wrapper" /\ Complete(last.ref)
  /\ ~Complete(last.w)
  /\ last.checks = << >> /\ last.invoked = << >>

\* the instances among positional arguments
InstancesIn(args) == {args[i] : i \in 1..Len(args)} \cap Instances

\* C18: a read of a class attribute through an instance o leaves every
\* existing wrapper (arguments, keywords, cache name) and the class as they
\* were; the wrapper it returns holds the arguments of the wrapper read
\* followed by o, so o is the only instance among them when the wrapper read
\* held none; the instance dictionaries change at most in the attribute of o
\* named by the cache name, which becomes the returned wrapper.  A read
\* served by the dictionary of o changes nothing and returns a wrapper that
\* was bound to o.
C18_ReadsAreIsolated ==
  [][/\ last'.op = "get" =>
          LET w   == last'.w
              o   == last'.obj
              key == heap[w].cache_name
          IN /\ \A i \in 1..Len(heap) :
                   heap'[i] = heap[i] /\ dicts'[heap'[i].kwargs] = dicts[heap[i].kwargs]
             /\ cls' = cls
             /\ heap'[last'.ref].args = heap[w].args \o <<o>>
             /\ InstancesIn(heap[w].args) = {} =>
                   InstancesIn(heap'[last'.ref].args) = {o}
             /\ \A p \in Instances \ {o} : inst'[p] = inst[p]
             /\ \A k \in ((DOMAIN inst[o]) \cup (DOMAIN inst'[o])) \ {key} :
                   /\ k \in DOMAIN inst[o] /\ k \in DOMAIN inst'[o]
                   /\ inst'[o][k] = inst[o][k]
             /\ IF Truthy(key)
                THEN key \in DOMAIN inst'[o] /\ inst'[o][key] = last'.ref
                ELSE inst' = inst
     /\ last'.op = "get_dict" =>
          /\ heap' = heap /\ dicts' = dicts /\ inst' = inst /\ cls' = cls
          /\ hist[last'.ref].bound = last'.obj
          /\ InstancesIn(hist[hist[last'.ref].parent].args0) = {} =>
                InstancesIn(heap[last'.ref].args) = {last'.obj}]_vars

\* the wrapper has been read through o1, which cached its bound wrapper, and
\* was then read through o2: each instance holds its own bound wrapper
C18_Witness ==
  /\ Bind /\ last.obj = "o2" /\ Truthy(heap[last.w].cache_name)
  /\ heap[last.w].cache_name \in DOMAIN inst["o1"]
  /\ InstancesIn(heap[inst["o1"][heap[last.w].cache_name]].args) = {"o1"}
  /\ inst["o2"][heap[last.w].cache_name] = last.ref
  /\ InstancesIn(heap[last.ref].args) = {"o2"}
  /\ heap[last.w].args = hist[last.w].args0

=============================================================================
